---- MODULE Spec2Model ----
(***************************************************************************)
(* ClickController of auto_clicker.py: the click loop thread(s), and the   *)
(* start_clicking / stop_clicking / toggle_pause calls made by the GUI     *)
(* thread (start and stop buttons) and by the keyboard hotkey thread (F9). *)
(* Every read or write of a shared attribute is one step, so the           *)
(* interleavings are those the interpreter can produce between statements. *)
(* threading.Event is modelled by its flag plus its waiters: set() wakes   *)
(* every thread blocked in wait(), which then returns True even if the     *)
(* flag is cleared again before the waiter runs.                           *)
(***************************************************************************)
EXTENDS Integers, FiniteSets

\* Number of accepted start_clicking calls (loop threads) explored.
MaxRuns == 2
\* Largest click quota (max_clicks) passed to start_clicking.
MaxQuota == 2
\* Number of ticks of one run on which the desktop gate may answer True.
MaxGateTrue == 2
\* Number of start_capture calls (polling threads) explored.
MaxCaptures == 2

Runs == 1..MaxRuns
\* max_clicks = 0 is the unbounded run; MaxQuota stands for the bounded ones.
Quotas == {0, MaxQuota}
Callers == {"gui", "hotkey"}
Captures == 1..MaxCaptures
\* What the user may have typed into the interval and click-limit fields.
Intervals == {0, 1}
MaxClicksInputs == {-1} \cup Quotas

\* The value None of an attribute holding a callback, thread or timestamp.
None == 0

VARIABLES
    running,             \* ClickController.running
    paused,              \* ClickController.paused
    stop_event,          \* flag of ClickController.stop_event
    pause_event,         \* flag of ClickController.pause_event
    click_count,         \* StatisticsTracker.click_count
    start_time,          \* StatisticsTracker.start_time (None, or the instant of the k-th start)
    auto_stop_callback,  \* ClickController.auto_stop_callback (None, or the callback of the k-th start)
    click_thread,        \* ClickController.click_thread (None, or the k-th thread)
    pc,                  \* pc[t]: position of loop thread t in _click_loop
    max_clicks,          \* max_clicks[t]: argument of thread t
    actual_click_count,  \* actual_click_count[t]: local of thread t
    loaded,              \* loaded[t]: click_count as read by thread t in statistics.increment
    cpc,                 \* cpc[c]: position of caller c
    invalid,             \* invalid[c]: the interval or max_clicks read by caller c in
                         \* _start_clicking fails the check of line 474 or of line 478
    negated,             \* negated[c]: "not self.paused" as evaluated by caller c in toggle_pause
    clicks,              \* clicks[t]: pyautogui.click calls of thread t that returned
    updates,             \* updates[t]: update_callback invocations by thread t
    fired,               \* fired[k]: invocations of the auto-stop callback given to the k-th start
    firedBy,             \* firedBy[t]: auto-stop callback invocations made by thread t
    exit_reason,         \* exit_reason[t]: the way thread t left the while loop
    stopped,             \* stopped[t]: "no", "called" once stop_clicking was called during run t,
                         \* "clicked" once t has completed a click after that call returned
    stoppedPaused,       \* stoppedPaused[t]: t is at its pause wait, where a stop_clicking called while
                         \* paused (the pausing toggle_pause returned) found it
    resumed,             \* resumed[t]: t is at its pause wait, woken by a resuming toggle_pause in a run
                         \* in which stop_clicking has not been called
    stopIdle,            \* a stop_clicking call is in progress that was made on an Idle controller
    gate_error,          \* gate_error[t]: the desktop query of t's current tick raised inside
                         \* is_on_active_desktop, and the tick has not yet clicked or begun its wait
    capturing,           \* CoordinateCapture.capturing
    upc,                 \* position of the thread calling start_capture / stop_capture
    wpc,                 \* wpc[k]: position of the k-th _wait_for_click thread
    called,              \* called[k]: invocations of self.callback by the k-th thread
    cancelled,           \* cancelled[k]: a stop_capture call returned after the k-th
                         \* start_capture and before the k-th thread invoked the callback
    paid                 \* paid[t]: no gate query of t since its last stop_event.wait(interval) that
                         \* timed out (or since the thread began)

ctl == <<running, paused, stop_event, pause_event>>
stats == <<click_count, start_time>>
thr == <<pc, max_clicks, actual_click_count, loaded>>
call == <<cpc, negated, invalid>>
runhist == <<clicks, updates, firedBy, exit_reason>>
callhist == <<stopped, stoppedPaused, resumed, stopIdle>>
tickhist == <<gate_error, paid>>
hist == <<runhist, fired, callhist, tickhist>>
controller == <<ctl, stats, auto_stop_callback, click_thread, thr, call, hist>>
capture == <<capturing, upc, wpc, called, cancelled>>
vars == <<controller, capture>>

Launched == {t \in Runs : pc[t] # "none"}
Alive == {t \in Runs : pc[t] \notin {"none", "done"}}
\* The runs a stop_clicking call falls into: the live loop threads, and the run
\* whose start_clicking has been accepted and has not yet launched its thread.
Starting == {t \in Runs : /\ t = Cardinality(Launched) + 1
                          /\ \E c \in Callers : cpc[c] \in {"S225", "S226", "S227", "S228", "S229", "S230", "S233"}}
Active == Alive \cup Starting
\* The controller is Idle: not running, no loop thread alive, and no call in
\* progress other than a toggle_pause that is returning False.
Idle ==
    /\ ~running
    /\ Alive = {}
    /\ cpc["gui"] = "idle"
    /\ cpc["hotkey"] \in {"idle", "P251"}

Init ==
    /\ running = FALSE
    /\ paused = FALSE
    /\ stop_event = FALSE
    /\ pause_event = FALSE
    /\ click_count = 0
    /\ start_time = None
    /\ auto_stop_callback = None
    /\ click_thread = None
    /\ pc = [t \in Runs |-> "none"]
    /\ max_clicks = [t \in Runs |-> 0]
    /\ actual_click_count = [t \in Runs |-> 0]
    /\ loaded = [t \in Runs |-> 0]
    /\ cpc = [c \in Callers |-> "idle"]
    /\ negated = [c \in Callers |-> FALSE]
    /\ invalid = [c \in Callers |-> FALSE]
    /\ clicks = [t \in Runs |-> 0]
    /\ updates = [t \in Runs |-> 0]
    /\ fired = [t \in Runs |-> 0]
    /\ firedBy = [t \in Runs |-> 0]
    /\ exit_reason = [t \in Runs |-> "none"]
    /\ stopped = [t \in Runs |-> "no"]
    /\ stoppedPaused = [t \in Runs |-> FALSE]
    /\ resumed = [t \in Runs |-> FALSE]
    /\ stopIdle = FALSE
    /\ gate_error = [t \in Runs |-> FALSE]
    /\ paid = [t \in Runs |-> TRUE]
    /\ capturing = FALSE
    /\ upc = "idle"
    /\ wpc = [k \in Captures |-> "none"]
    /\ called = [k \in Captures |-> 0]
    /\ cancelled = [k \in Captures |-> FALSE]

----------------------------------------------------------------------------
(* threading.Event *)

\* Event.set() on stop_event: the flag, and every thread blocked in
\* stop_event.wait(interval) wakes with True and takes the break of line 301.
StopEventSet ==
    /\ stop_event' = TRUE
    /\ pc' = [t \in Runs |-> IF pc[t] = "L298w" THEN "L307" ELSE pc[t]]
    /\ exit_reason' = [t \in Runs |-> IF pc[t] = "L298w" THEN "wait" ELSE exit_reason[t]]

\* Event.set() on pause_event: the flag, and every thread blocked in
\* pause_event.wait() wakes and goes on to line 268.
PauseEventSet ==
    /\ pause_event' = TRUE
    /\ pc' = [t \in Runs |-> IF pc[t] = "L267w" THEN "L268" ELSE pc[t]]

----------------------------------------------------------------------------
(* AutoClickerGUI._start_clicking: the checks made before start_clicking *)

\* _start_clicking without the checks of lines 474-480: the values go to
\* start_clicking, which tests only self.running
GuiStartUnchecked(c) ==
    /\ cpc[c] = "idle"
    /\ Cardinality(Launched) < MaxRuns
    /\ \E interval \in Intervals, limit \in MaxClicksInputs :
         /\ interval <= 0 \/ limit < 0
         /\ invalid' = [invalid EXCEPT ![c] = TRUE]
    /\ cpc' = [cpc EXCEPT ![c] = IF running THEN "S223" ELSE "S225"]
    /\ UNCHANGED <<ctl, stats, auto_stop_callback, click_thread, thr, negated, hist,
                   capture>>

\* lines 474-480: if interval <= 0: showerror, return; if max_clicks < 0:
\* showerror, return
GuiStartRejected(c) ==
    /\ cpc[c] = "idle"
    /\ \E interval \in Intervals, limit \in MaxClicksInputs :
         /\ interval <= 0 \/ limit < 0
         /\ invalid' = [invalid EXCEPT ![c] = TRUE]
    /\ cpc' = [cpc EXCEPT ![c] = "G475"]
    /\ UNCHANGED <<ctl, stats, auto_stop_callback, click_thread, thr, negated, hist,
                   capture>>

\* lines 475-476, 479-480: the error dialog is closed; return
GuiStartRejectedReturn(c) ==
    /\ cpc[c] = "G475"
    /\ cpc' = [cpc EXCEPT ![c] = "idle"]
    /\ invalid' = [invalid EXCEPT ![c] = FALSE]
    /\ UNCHANGED <<ctl, stats, auto_stop_callback, click_thread, thr, negated, hist,
                   capture>>

----------------------------------------------------------------------------
(* ClickController.start_clicking, called by the GUI thread with an interval
   and a max_clicks that passed the checks of _start_clicking *)

\* start_clicking without the test of line 222: the start always goes ahead
StartCheckUnguarded(c) ==
    /\ cpc[c] = "idle"
    /\ Cardinality(Launched) < MaxRuns
    /\ cpc' = [cpc EXCEPT ![c] = "S225"]
    /\ UNCHANGED <<ctl, stats, auto_stop_callback, click_thread, thr, negated, invalid, hist,
                   capture>>

\* line 222-223: if self.running: return False
StartCheck(c) ==
    /\ cpc[c] = "idle"
    /\ Cardinality(Launched) < MaxRuns
    /\ cpc' = [cpc EXCEPT ![c] = IF running THEN "S223" ELSE "S225"]
    /\ UNCHANGED <<ctl, stats, auto_stop_callback, click_thread, thr, negated, invalid, hist,
                   capture>>

\* line 223: return False
StartReturnFalse(c) ==
    /\ cpc[c] = "S223"
    /\ cpc' = [cpc EXCEPT ![c] = "idle"]
    /\ UNCHANGED <<ctl, stats, auto_stop_callback, click_thread, thr, negated, invalid, hist,
                   capture>>

\* line 225: self.running = True
Start225(c) ==
    /\ cpc[c] = "S225"
    /\ running' = TRUE
    /\ cpc' = [cpc EXCEPT ![c] = "S226"]
    /\ UNCHANGED <<paused, stop_event, pause_event, stats, auto_stop_callback,
                   click_thread, thr, negated, invalid, hist,
                   capture>>

\* line 226: self.paused = False
Start226(c) ==
    /\ cpc[c] = "S226"
    /\ paused' = FALSE
    /\ cpc' = [cpc EXCEPT ![c] = "S227"]
    /\ UNCHANGED <<running, stop_event, pause_event, stats, auto_stop_callback,
                   click_thread, thr, negated, invalid, hist,
                   capture>>

\* line 227: self.stop_event.clear()
Start227(c) ==
    /\ cpc[c] = "S227"
    /\ stop_event' = FALSE
    /\ cpc' = [cpc EXCEPT ![c] = "S228"]
    /\ UNCHANGED <<running, paused, pause_event, stats, auto_stop_callback,
                   click_thread, thr, negated, invalid, hist,
                   capture>>

\* line 228: self.pause_event.clear()
Start228(c) ==
    /\ cpc[c] = "S228"
    /\ pause_event' = FALSE
    /\ cpc' = [cpc EXCEPT ![c] = "S229"]
    /\ UNCHANGED <<running, paused, stop_event, stats, auto_stop_callback,
                   click_thread, thr, negated, invalid, hist,
                   capture>>

\* line 229, StatisticsTracker.start (lines 72-75): click_count = 0,
\* start_time = time.time(); the k-th start reads the clock at instant k.
Start229(c) ==
    /\ cpc[c] = "S229"
    /\ click_count' = 0
    /\ start_time' = Cardinality(Launched) + 1
    /\ cpc' = [cpc EXCEPT ![c] = "S230"]
    /\ UNCHANGED <<ctl, auto_stop_callback, click_thread, thr, negated, invalid, hist,
                   capture>>

\* line 230: self.auto_stop_callback = auto_stop_callback
Start230(c) ==
    /\ cpc[c] = "S230"
    /\ auto_stop_callback' = Cardinality(Launched) + 1
    /\ cpc' = [cpc EXCEPT ![c] = "S233"]
    /\ UNCHANGED <<ctl, stats, click_thread, thr, negated, invalid, hist,
                   capture>>

\* lines 233-239: the thread is created and started; return True
Start233(c) ==
    /\ cpc[c] = "S233"
    /\ \E q \in Quotas :
         LET t == Cardinality(Launched) + 1 IN
         /\ click_thread' = t
         /\ pc' = [pc EXCEPT ![t] = "L264"]
         /\ max_clicks' = [max_clicks EXCEPT ![t] = q]
    /\ cpc' = [cpc EXCEPT ![c] = "idle"]
    /\ UNCHANGED <<ctl, stats, auto_stop_callback, actual_click_count, loaded,
                   negated, invalid, hist,
                   capture>>

----------------------------------------------------------------------------
(* ClickController.stop_clicking, called by the GUI thread *)

\* line 243: self.running = False
Stop243(c) ==
    /\ cpc[c] = "idle"
    /\ running' = FALSE
    /\ cpc' = [cpc EXCEPT ![c] = "T244"]
    /\ stopped' = [t \in Runs |-> IF t \in Active /\ stopped[t] = "no" THEN "called" ELSE stopped[t]]
    /\ stoppedPaused' = [t \in Runs |->
                           \/ stoppedPaused[t]
                           \/ /\ paused
                              /\ cpc["hotkey"] = "idle"
                              /\ pc[t] \in {"L267", "L267w"}]
    /\ resumed' = [t \in Runs |-> FALSE]
    /\ stopIdle' = Idle
    /\ UNCHANGED <<paused, stop_event, pause_event, stats, auto_stop_callback,
                   click_thread, thr, negated, invalid, runhist, fired, tickhist,
                   capture>>

\* line 244: self.paused = False
Stop244(c) ==
    /\ cpc[c] = "T244"
    /\ paused' = FALSE
    /\ cpc' = [cpc EXCEPT ![c] = "T245"]
    /\ UNCHANGED <<running, stop_event, pause_event, stats, auto_stop_callback,
                   click_thread, thr, negated, invalid, hist,
                   capture>>

\* line 245: self.stop_event.set()
Stop245(c) ==
    /\ cpc[c] = "T245"
    /\ StopEventSet
    /\ cpc' = [cpc EXCEPT ![c] = "T246"]
    /\ UNCHANGED <<running, paused, pause_event, stats, auto_stop_callback,
                   click_thread, max_clicks, actual_click_count, loaded, negated, invalid,
                   clicks, updates, fired, firedBy, callhist, tickhist,
                   capture>>

\* line 246: self.pause_event.set(); return
Stop246(c) ==
    /\ cpc[c] = "T246"
    /\ PauseEventSet
    /\ cpc' = [cpc EXCEPT ![c] = "idle"]
    /\ stopIdle' = FALSE
    /\ UNCHANGED <<running, paused, stop_event, stats, auto_stop_callback,
                   click_thread, max_clicks, actual_click_count, loaded, negated, invalid,
                   runhist, fired, stopped, stoppedPaused, resumed, tickhist,
                   capture>>

----------------------------------------------------------------------------
(* ClickController.toggle_pause, called by the hotkey thread (F9) *)

\* toggle_pause without the test of line 250: the flip always goes ahead
ToggleCheckUnguarded(c) ==
    /\ cpc[c] = "idle"
    /\ cpc' = [cpc EXCEPT ![c] = "P253"]
    /\ UNCHANGED <<ctl, stats, auto_stop_callback, click_thread, thr, negated, invalid,
                   clicks, updates, fired, firedBy, exit_reason, callhist, tickhist,
                   capture>>

\* line 250-251: if not self.running: return False
ToggleCheck(c) ==
    /\ cpc[c] = "idle"
    /\ cpc' = [cpc EXCEPT ![c] = IF running THEN "P253" ELSE "P251"]
    /\ UNCHANGED <<ctl, stats, auto_stop_callback, click_thread, thr, negated, invalid,
                   clicks, updates, fired, firedBy, exit_reason, callhist, tickhist,
                   capture>>

\* line 251: return False
ToggleReturnFalse(c) ==
    /\ cpc[c] = "P251"
    /\ cpc' = [cpc EXCEPT ![c] = "idle"]
    /\ UNCHANGED <<ctl, stats, auto_stop_callback, click_thread, thr, negated, invalid, hist,
                   capture>>

\* line 253, right-hand side: not self.paused
Toggle253Load(c) ==
    /\ cpc[c] = "P253"
    /\ negated' = [negated EXCEPT ![c] = ~paused]
    /\ cpc' = [cpc EXCEPT ![c] = "P253s"]
    /\ UNCHANGED <<ctl, stats, auto_stop_callback, click_thread, thr, invalid, hist,
                   capture>>

\* line 253, the store: self.paused = ...
Toggle253Store(c) ==
    /\ cpc[c] = "P253s"
    /\ paused' = negated[c]
    /\ negated' = [negated EXCEPT ![c] = FALSE]
    /\ cpc' = [cpc EXCEPT ![c] = "P254"]
    /\ UNCHANGED <<running, stop_event, pause_event, stats, auto_stop_callback,
                   click_thread, thr, invalid, hist,
                   capture>>

\* lines 254-258: self.paused is read again; set() resumes, clear() pauses; return True
Toggle254(c) ==
    /\ cpc[c] = "P254"
    /\ IF ~paused
       THEN /\ PauseEventSet
            /\ resumed' = [t \in Runs |-> resumed[t] \/ (pc[t] = "L267w" /\ stopped[t] = "no")]
       ELSE /\ pause_event' = FALSE
            /\ UNCHANGED <<pc, resumed>>
    /\ cpc' = [cpc EXCEPT ![c] = "idle"]
    /\ UNCHANGED <<running, paused, stop_event, stats, auto_stop_callback,
                   click_thread, max_clicks, actual_click_count, loaded, negated, invalid,
                   runhist, fired, stopped, stoppedPaused, stopIdle, tickhist,
                   capture>>

----------------------------------------------------------------------------
(* ClickController._click_loop, run by loop thread t *)

\* line 264, left operand: while self.running
LoopCondRunning(t) ==
    /\ pc[t] = "L264"
    /\ IF running
       THEN /\ pc' = [pc EXCEPT ![t] = "L264e"]
            /\ UNCHANGED exit_reason
       ELSE /\ pc' = [pc EXCEPT ![t] = "L307"]
            /\ exit_reason' = [exit_reason EXCEPT ![t] = "while"]
    /\ UNCHANGED <<ctl, stats, auto_stop_callback, click_thread, max_clicks,
                   actual_click_count, loaded, call, clicks, updates, fired,
                   firedBy, callhist, tickhist,
                   capture>>

\* line 264, right operand: and not self.stop_event.is_set()
LoopCondStopEvent(t) ==
    /\ pc[t] = "L264e"
    /\ IF stop_event
       THEN /\ pc' = [pc EXCEPT ![t] = "L307"]
            /\ exit_reason' = [exit_reason EXCEPT ![t] = "while"]
       ELSE /\ pc' = [pc EXCEPT ![t] = "L266"]
            /\ UNCHANGED exit_reason
    /\ UNCHANGED <<ctl, stats, auto_stop_callback, click_thread, max_clicks,
                   actual_click_count, loaded, call, clicks, updates, fired,
                   firedBy, callhist, tickhist,
                   capture>>

\* line 266: if self.paused
CheckPaused(t) ==
    /\ pc[t] = "L266"
    /\ pc' = [pc EXCEPT ![t] = IF paused THEN "L267" ELSE "L273"]
    /\ UNCHANGED <<ctl, stats, auto_stop_callback, click_thread, max_clicks,
                   actual_click_count, loaded, call, hist,
                   capture>>

\* line 267: self.pause_event.wait() is entered; it returns at once when the
\* flag is set, and blocks otherwise (until PauseEventSet wakes the thread)
PauseWait(t) ==
    /\ pc[t] = "L267"
    /\ pc' = [pc EXCEPT ![t] = IF pause_event THEN "L268" ELSE "L267w"]
    /\ UNCHANGED <<ctl, stats, auto_stop_callback, click_thread, max_clicks,
                   actual_click_count, loaded, call, hist,
                   capture>>

\* lines 268-269: if not self.running: break
AfterPause(t) ==
    /\ pc[t] = "L268"
    /\ IF running
       THEN /\ pc' = [pc EXCEPT ![t] = "L273"]
            /\ UNCHANGED exit_reason
       ELSE /\ pc' = [pc EXCEPT ![t] = "L307"]
            /\ exit_reason' = [exit_reason EXCEPT ![t] = "pause"]
    /\ resumed' = [resumed EXCEPT ![t] = FALSE]
    /\ stoppedPaused' = [stoppedPaused EXCEPT ![t] = FALSE]
    /\ UNCHANGED <<ctl, stats, auto_stop_callback, click_thread, max_clicks,
                   actual_click_count, loaded, call, clicks, updates, fired,
                   firedBy, stopped, stopIdle, tickhist,
                   capture>>

\* What the window system answers to one desktop query: root.state(),
\* root.winfo_viewable(), the scan of CGWindowListCopyWindowInfo for an
\* on-screen window of this process, and the winfo_viewable() of the fallback;
\* each of the calls may raise.
WindowStates == {"normal", "iconic", "raise"}
Viewables == {"yes", "no", "raise"}
WindowLists == {"onscreen", "offscreen", "raise"}

\* DesktopMonitor.is_on_active_desktop, lines 113-167, for a monitor with
\* macos_support (the GUI creates no monitor otherwise, line 336)
is_on_active_desktop(state, viewable, window_list, viewable2) ==
    IF state = "raise" THEN TRUE                    \* lines 165-167
    ELSE IF state = "iconic" THEN FALSE             \* lines 116-117
    ELSE IF viewable = "raise" THEN TRUE            \* lines 165-167
    ELSE IF viewable = "no" THEN FALSE              \* lines 119-120
    ELSE IF window_list = "onscreen" THEN TRUE      \* lines 139-157
    ELSE IF window_list = "offscreen" THEN FALSE
    ELSE IF viewable2 = "raise" THEN TRUE           \* lines 159-163, then 165-167
    ELSE viewable2 = "yes"                          \* line 163, state # 'iconic' here

\* One of the calls made by the query raised.
QueryRaised(state, viewable, window_list) ==
    \/ state = "raise"
    \/ state = "normal" /\ viewable = "raise"
    \/ state = "normal" /\ viewable = "yes" /\ window_list = "raise"

\* The pairs <<answer, raised>> a desktop query can produce.
GateOutcomes ==
    {<<is_on_active_desktop(s, v, w, v2), QueryRaised(s, v, w)>> :
        s \in WindowStates, v \in Viewables, w \in WindowLists, v2 \in Viewables}

\* lines 273-278: should_click = self.desktop_monitor.is_on_active_desktop();
\* the answer is True on at most MaxGateTrue ticks of a run
GateQuery(t) ==
    /\ pc[t] = "L273"
    /\ \E outcome \in GateOutcomes :
         LET should_click == outcome[1] IN
         /\ should_click => clicks[t] < MaxGateTrue
         /\ pc' = [pc EXCEPT ![t] = IF should_click THEN "L280" ELSE "L298"]
         /\ gate_error' = [gate_error EXCEPT ![t] = outcome[2]]
    /\ paid' = [paid EXCEPT ![t] = FALSE]
    /\ UNCHANGED <<ctl, stats, auto_stop_callback, click_thread, max_clicks,
                   actual_click_count, loaded, call, runhist, fired, callhist,
                   capture>>

\* line 280: pyautogui.click(x, y) returns
Click(t) ==
    /\ pc[t] = "L280"
    /\ clicks' = [clicks EXCEPT ![t] = @ + 1]
    /\ stopped' = [stopped EXCEPT ![t] = IF @ = "called" /\ cpc["gui"] \notin {"T244", "T245", "T246"}
                                              THEN "clicked" ELSE @]
    /\ pc' = [pc EXCEPT ![t] = "L281"]
    /\ gate_error' = [gate_error EXCEPT ![t] = FALSE]
    /\ UNCHANGED <<ctl, stats, auto_stop_callback, click_thread, max_clicks,
                   actual_click_count, loaded, call, updates, fired, firedBy,
                   exit_reason, stoppedPaused, resumed, stopIdle, paid,
                   capture>>

\* the except clause of lines 303-305 with continue in place of break: the
\* failed click is retried on the next iteration
ClickRaisesRetried(t) ==
    /\ pc[t] = "L280"
    /\ pc' = [pc EXCEPT ![t] = "L264"]
    /\ exit_reason' = [exit_reason EXCEPT ![t] = "error"]
    /\ gate_error' = [gate_error EXCEPT ![t] = FALSE]
    /\ UNCHANGED <<ctl, stats, auto_stop_callback, click_thread, max_clicks,
                   actual_click_count, loaded, call, clicks, updates, fired,
                   firedBy, callhist, paid,
                   capture>>

\* line 280 raises; lines 303-305: except Exception: break
ClickRaises(t) ==
    /\ pc[t] = "L280"
    /\ pc' = [pc EXCEPT ![t] = "L307"]
    /\ exit_reason' = [exit_reason EXCEPT ![t] = "error"]
    /\ gate_error' = [gate_error EXCEPT ![t] = FALSE]
    /\ UNCHANGED <<ctl, stats, auto_stop_callback, click_thread, max_clicks,
                   actual_click_count, loaded, call, clicks, updates, fired,
                   firedBy, callhist, paid,
                   capture>>

\* line 281, StatisticsTracker.increment (line 79), the read of click_count
IncrementLoad(t) ==
    /\ pc[t] = "L281"
    /\ loaded' = [loaded EXCEPT ![t] = click_count]
    /\ pc' = [pc EXCEPT ![t] = "L281s"]
    /\ UNCHANGED <<ctl, stats, auto_stop_callback, click_thread, max_clicks,
                   actual_click_count, call, hist,
                   capture>>

\* line 79, the store of click_count + 1; line 282: actual_click_count += 1
IncrementStore(t) ==
    /\ pc[t] = "L281s"
    /\ click_count' = loaded[t] + 1
    /\ loaded' = [loaded EXCEPT ![t] = 0]
    /\ actual_click_count' = [actual_click_count EXCEPT ![t] = @ + 1]
    /\ pc' = [pc EXCEPT ![t] = "L285"]
    /\ UNCHANGED <<ctl, start_time, auto_stop_callback, click_thread, max_clicks,
                   call, hist,
                   capture>>

\* lines 285-289: update_callback(); then the quota test
\* max_clicks > 0 and actual_click_count >= max_clicks
UpdateCallback(t) ==
    /\ pc[t] = "L285"
    /\ updates' = [updates EXCEPT ![t] = @ + 1]
    /\ pc' = [pc EXCEPT ![t] =
                IF max_clicks[t] > 0 /\ actual_click_count[t] >= max_clicks[t]
                THEN "L291" ELSE "L298"]
    /\ UNCHANGED <<ctl, stats, auto_stop_callback, click_thread, max_clicks,
                   actual_click_count, loaded, call, clicks, fired, firedBy,
                   exit_reason, callhist, tickhist,
                   capture>>

\* line 291: self.running = False
AutoStopSet(t) ==
    /\ pc[t] = "L291"
    /\ running' = FALSE
    /\ pc' = [pc EXCEPT ![t] = "L293"]
    /\ UNCHANGED <<paused, stop_event, pause_event, stats, auto_stop_callback,
                   click_thread, max_clicks, actual_click_count, loaded, call, hist,
                   capture>>

\* lines 293-295: if self.auto_stop_callback: self.auto_stop_callback(); break
AutoStopCallback(t) ==
    /\ pc[t] = "L293"
    /\ IF auto_stop_callback # None
       THEN /\ fired' = [fired EXCEPT ![auto_stop_callback] = @ + 1]
            /\ firedBy' = [firedBy EXCEPT ![t] = @ + 1]
       ELSE UNCHANGED <<fired, firedBy>>
    /\ pc' = [pc EXCEPT ![t] = "L307"]
    /\ exit_reason' = [exit_reason EXCEPT ![t] = "quota"]
    /\ UNCHANGED <<ctl, stats, auto_stop_callback, click_thread, max_clicks,
                   actual_click_count, loaded, call, clicks, updates, callhist, tickhist,
                   capture>>

\* the loop without the wait of line 298: the next iteration begins at once
IntervalWaitSkipped(t) ==
    /\ pc[t] = "L298"
    /\ pc' = [pc EXCEPT ![t] = "L264"]
    /\ gate_error' = [gate_error EXCEPT ![t] = FALSE]
    /\ UNCHANGED <<ctl, stats, auto_stop_callback, click_thread, max_clicks,
                   actual_click_count, loaded, call, clicks, updates, fired,
                   firedBy, exit_reason, callhist, paid,
                   capture>>

\* line 298: self.stop_event.wait(interval) is entered; it returns True at once
\* when the flag is set (lines 300-301: break), and blocks otherwise
IntervalWait(t) ==
    /\ pc[t] = "L298"
    /\ IF stop_event
       THEN /\ pc' = [pc EXCEPT ![t] = "L307"]
            /\ exit_reason' = [exit_reason EXCEPT ![t] = "wait"]
       ELSE /\ pc' = [pc EXCEPT ![t] = "L298w"]
            /\ UNCHANGED exit_reason
    /\ gate_error' = [gate_error EXCEPT ![t] = FALSE]
    /\ UNCHANGED <<ctl, stats, auto_stop_callback, click_thread, max_clicks,
                   actual_click_count, loaded, call, clicks, updates, fired,
                   firedBy, callhist, paid,
                   capture>>

\* lines 298-299: the wait times out, returns False: continue
IntervalTimeout(t) ==
    /\ pc[t] = "L298w"
    /\ pc' = [pc EXCEPT ![t] = "L264"]
    /\ paid' = [paid EXCEPT ![t] = TRUE]
    /\ UNCHANGED <<ctl, stats, auto_stop_callback, click_thread, max_clicks,
                   actual_click_count, loaded, call, runhist, fired, callhist,
                   gate_error,
                   capture>>

\* line 307: self.running = False; the thread ends, and its locals and the
\* record of its run end with it
LoopExit(t) ==
    /\ pc[t] = "L307"
    /\ running' = FALSE
    /\ pc' = [pc EXCEPT ![t] = "done"]
    /\ max_clicks' = [max_clicks EXCEPT ![t] = 0]
    /\ actual_click_count' = [actual_click_count EXCEPT ![t] = 0]
    /\ clicks' = [clicks EXCEPT ![t] = 0]
    /\ updates' = [updates EXCEPT ![t] = 0]
    /\ firedBy' = [firedBy EXCEPT ![t] = 0]
    /\ exit_reason' = [exit_reason EXCEPT ![t] = "none"]
    /\ stopped' = [stopped EXCEPT ![t] = "no"]
    /\ stoppedPaused' = [stoppedPaused EXCEPT ![t] = FALSE]
    /\ resumed' = [resumed EXCEPT ![t] = FALSE]
    /\ gate_error' = [gate_error EXCEPT ![t] = FALSE]
    /\ paid' = [paid EXCEPT ![t] = TRUE]
    /\ UNCHANGED <<paused, stop_event, pause_event, stats, auto_stop_callback,
                   click_thread, loaded, call, fired, stopIdle,
                   capture>>

----------------------------------------------------------------------------

LoopStep(t) ==
    \/ LoopCondRunning(t)
    \/ LoopCondStopEvent(t)
    \/ CheckPaused(t)
    \/ PauseWait(t)
    \/ AfterPause(t)
    \/ GateQuery(t)
    \/ Click(t)
    \/ ClickRaises(t)
    \/ IncrementLoad(t)
    \/ IncrementStore(t)
    \/ UpdateCallback(t)
    \/ AutoStopSet(t)
    \/ AutoStopCallback(t)
    \/ IntervalWait(t)
    \/ IntervalTimeout(t)
    \/ LoopExit(t)

start_clicking(c) ==
    \/ StartCheck(c)
    \/ StartReturnFalse(c)
    \/ Start225(c)
    \/ Start226(c)
    \/ Start227(c)
    \/ Start228(c)
    \/ Start229(c)
    \/ Start230(c)
    \/ Start233(c)

\* AutoClickerGUI._start_clicking
gui_start_clicking(c) ==
    \/ GuiStartRejected(c)
    \/ GuiStartRejectedReturn(c)
    \/ start_clicking(c)

stop_clicking(c) ==
    \/ Stop243(c)
    \/ Stop244(c)
    \/ Stop245(c)
    \/ Stop246(c)

toggle_pause(c) ==
    \/ ToggleCheck(c)
    \/ ToggleReturnFalse(c)
    \/ Toggle253Load(c)
    \/ Toggle253Store(c)
    \/ Toggle254(c)

Next ==
    \/ \E t \in Runs : LoopStep(t)
    \/ gui_start_clicking("gui")
    \/ stop_clicking("gui")
    \/ toggle_pause("hotkey")

Spec == Init /\ [][Next]_vars

----------------------------------------------------------------------------
(* CoordinateCapture: start_capture and stop_capture called by one thread,
   and the _wait_for_click threads *)

CaptureThreads == {k \in Captures : wpc[k] # "none"}

\* line 179: self.capturing = True
StartCapture179 ==
    /\ upc = "idle"
    /\ Cardinality(CaptureThreads) < MaxCaptures
    /\ capturing' = TRUE
    /\ upc' = "C181"
    /\ UNCHANGED <<wpc, called, cancelled, controller>>

\* lines 181-182: the polling thread is created and started; return
StartCapture181 ==
    /\ upc = "C181"
    /\ wpc' = [wpc EXCEPT ![Cardinality(CaptureThreads) + 1] = "W186"]
    /\ upc' = "idle"
    /\ UNCHANGED <<capturing, called, cancelled, controller>>

\* line 204: self.capturing = False; return
stop_capture ==
    /\ upc = "idle"
    /\ capturing' = FALSE
    /\ cancelled' = [k \in Captures |->
                       cancelled[k] \/ (wpc[k] # "none" /\ called[k] = 0)]
    /\ UNCHANGED <<upc, wpc, called, controller>>

\* line 186: time.sleep(0.5)
WaitDelay(k) ==
    /\ wpc[k] = "W186"
    /\ wpc' = [wpc EXCEPT ![k] = "W189"]
    /\ UNCHANGED <<capturing, upc, called, cancelled, controller>>

\* line 189: while self.capturing
WaitCond(k) ==
    /\ wpc[k] = "W189"
    /\ wpc' = [wpc EXCEPT ![k] = IF capturing THEN "W193" ELSE "done"]
    /\ UNCHANGED <<capturing, upc, called, cancelled, controller>>

\* lines 193-194: keyboard.is_pressed('button') answers True or False, or
\* raises; x, y = pyautogui.position() returns or raises (lines 198-200:
\* except: pass, then time.sleep(0.01) and the next iteration)
WaitPoll(k) ==
    /\ wpc[k] = "W193"
    /\ \E pressed \in {"yes", "no", "raise"}, position \in {"ok", "raise"} :
         wpc' = [wpc EXCEPT ![k] = IF pressed = "yes" /\ position = "ok"
                                   THEN "W195" ELSE "W189"]
    /\ UNCHANGED <<capturing, upc, called, cancelled, controller>>

\* line 195: self.capturing = False
WaitClear(k) ==
    /\ wpc[k] = "W195"
    /\ capturing' = FALSE
    /\ wpc' = [wpc EXCEPT ![k] = "W196"]
    /\ UNCHANGED <<upc, called, cancelled, controller>>

\* lines 196-197: self.callback(x, y); break. A callback that raises is
\* swallowed by the bare except of line 198 and the loop goes on.
WaitCallback(k) ==
    /\ wpc[k] = "W196"
    /\ called' = [called EXCEPT ![k] = @ + 1]
    /\ \E raised \in BOOLEAN :
         wpc' = [wpc EXCEPT ![k] = IF raised THEN "W189" ELSE "done"]
    /\ UNCHANGED <<capturing, upc, cancelled, controller>>

start_capture ==
    \/ StartCapture179
    \/ StartCapture181

wait_for_click(k) ==
    \/ WaitDelay(k)
    \/ WaitCond(k)
    \/ WaitPoll(k)
    \/ WaitClear(k)
    \/ WaitCallback(k)

CaptureNext ==
    \/ start_capture
    \/ stop_capture
    \/ \E k \in Captures : wait_for_click(k)

CaptureSpec == Init /\ [][CaptureNext]_vars

----------------------------------------------------------------------------
(* Properties *)

\* No call of start_clicking, stop_clicking or toggle_pause is in progress.
CallersIdle == \A c \in Callers : cpc[c] = "idle"

\* C1: at most one _click_loop thread is alive (launched and not yet exited)
\* in every reachable state.
AtMostOneLoopThread == Cardinality(Alive) <= 1

\* What a rejected start_clicking must leave alone.
RejectedStartFrame ==
    UNCHANGED <<running, paused, stop_event, pause_event, click_count, start_time,
                auto_stop_callback, click_thread, pc, max_clicks, actual_click_count>>

\* C2: a start_clicking call that finds running = True goes to "return False"
\* and, in both its steps, leaves running, paused, the two events, the
\* statistics, the stored auto-stop callback and the loop threads unchanged.
RejectedStartChangesNothing ==
    [][\A c \in Callers :
         /\ (cpc[c] = "idle" /\ cpc'[c] \in {"S223", "S225"} /\ running)
              => (cpc'[c] = "S223" /\ RejectedStartFrame)
         /\ (cpc[c] = "S223" /\ cpc'[c] # "S223")
              => (cpc'[c] = "idle" /\ RejectedStartFrame)]_vars

\* A start_clicking call is returning False while a loop thread is alive.
RejectedStartWitness == cpc["gui"] = "S223" /\ Alive # {}

\* C3: a run with max_clicks > 0 in which neither stop_clicking nor a click
\* error occurred never clicks more than max_clicks times, and when its loop
\* is left it has performed exactly max_clicks clicks, invoked update_callback
\* max_clicks times and invoked the auto-stop callback once.
QuotaRunCompletes ==
    \A t \in Runs :
        (max_clicks[t] > 0 /\ stopped[t] = "no" /\ exit_reason[t] # "error")
          => /\ clicks[t] <= max_clicks[t]
             /\ pc[t] = "L307" => /\ clicks[t] = max_clicks[t]
                                  /\ updates[t] = max_clicks[t]
                                  /\ firedBy[t] = 1

\* C4: the auto-stop callback given to the k-th accepted start_clicking fires
\* at most once, and only from run k's own loop, once that loop has performed
\* max_clicks > 0 clicks (so never for a run that was stopped or failed first).
AutoStopOnlyOnQuota ==
    [][\A k \in Runs :
         fired'[k] # fired[k]
           => /\ fired[k] = 0
              /\ pc[k] = "L293"
              /\ max_clicks[k] > 0
              /\ clicks[k] >= max_clicks[k]]_vars

\* C5: a run started with max_clicks = 0 leaves its loop only after a
\* stop_clicking call made during that run or after a click error, and its
\* auto-stop callback is never invoked.
UnboundedRunEndsOnlyByStop ==
    \A t \in Runs :
        (t \in Alive /\ max_clicks[t] = 0)
          => /\ fired[t] = 0
             /\ pc[t] = "L307" => (stopped[t] # "no" \/ exit_reason[t] = "error")

\* The controller is paused and no call is in progress: the toggle_pause that
\* paused has returned and no toggle_pause, stop_clicking or start_clicking
\* has been called since.
PausedQuiet == paused /\ CallersIdle

\* C6: while the controller is paused no loop performs a click.
NoClickWhilePaused ==
    [][(PausedQuiet /\ PausedQuiet') => clicks' = clicks]_vars

\* C7: a loop that a stop_clicking called during pause found at its pause wait
\* is not left blocked once the call has returned, and when it leaves the
\* wait it leaves the loop (no gate query, no click).
StopWhilePausedExits ==
    [][\A t \in Runs :
         stoppedPaused[t]
           => /\ (CallersIdle => pc[t] # "L267w")
              /\ (pc[t] = "L268" /\ pc'[t] # "L268") => pc'[t] = "L307"]_vars

\* C8: once stop_clicking has been called during a run and has returned, the
\* run's loop is never left blocked in the pause wait, whatever toggle_pause
\* calls overlap the stop, and it completes at most one further click.
StoppedLoopExits ==
    [][\A t \in Runs :
         /\ (stopped'[t] # "no" /\ CallersIdle') => pc'[t] # "L267w"
         /\ stopped[t] = "clicked" => clicks'[t] = clicks[t]]_vars

\* C9: a loop woken from its pause wait by a resuming toggle_pause, with no
\* stop_clicking since, goes on to the gate query.
ResumeResumesTicking ==
    [][\A t \in Runs :
         (resumed[t] /\ pc[t] = "L268" /\ pc'[t] # "L268") => pc'[t] = "L273"]_vars

\* C10: when pyautogui.click raises, the step counts no click and leaves
\* click_count alone; from then on the loop is at its exit, performs no
\* click, no update and no auto-stop callback, and its one remaining step
\* writes running = False and ends the thread.
ClickErrorIsTerminal ==
    [][\A t \in Runs :
         /\ (pc[t] = "L280" /\ exit_reason'[t] = "error")
              => (clicks' = clicks /\ click_count' = click_count /\ pc'[t] = "L307")
         /\ exit_reason[t] = "error"
              => /\ pc[t] = "L307"
                 /\ clicks'[t] = clicks[t] \/ pc'[t] = "done"
                 /\ updates'[t] = updates[t] \/ pc'[t] = "done"
                 /\ firedBy'[t] = firedBy[t] \/ pc'[t] = "done"
                 /\ pc'[t] \in {"L307", "done"}
                 /\ pc'[t] = "done" => ~running']_vars

\* A click has raised in a run that had already clicked.
ClickErrorWitness == \E t \in Runs : exit_reason[t] = "error" /\ clicks[t] > 0

\* C11: on a tick whose desktop query raised, the loop performs no click: it
\* goes to the interval wait and from there on to the next tick.
GateErrorFailsClosed ==
    [][\A t \in Runs :
         gate_error[t] => /\ clicks'[t] = clicks[t]
                          /\ pc'[t] \in {pc[t], "L298", "L298w", "L307"}]_vars

\* The desktop query of run t has answered True on some tick.
GateEverTrue(t) == clicks[t] > 0 \/ pc[t] = "L280" \/ exit_reason[t] = "error"

\* C12: during the latest run, as long as its desktop query has answered
\* False on every tick, click_count is 0, the run's auto-stop callback has
\* not fired, and its loop is left only after a stop_clicking call.
GateAlwaysFalseCountsNothing ==
    \A t \in Alive :
        (click_thread = t /\ ~GateEverTrue(t))
          => /\ click_count = 0
             /\ fired[t] = 0
             /\ pc[t] = "L307" => stopped[t] # "no"

\* C13: no step of a stop_clicking call made on an Idle controller changes
\* running, paused or the statistics.
IdleStopChangesNothing ==
    [][(/\ cpc'["gui"] # cpc["gui"]
        /\ \/ Idle /\ cpc'["gui"] = "T244"
           \/ stopIdle /\ cpc["gui"] \in {"T244", "T245", "T246"})
         => /\ running' = running
            /\ paused' = paused
            /\ stats' = stats]_vars

\* C14: a toggle_pause call that finds running = False goes to "return False"
\* and changes nothing; one that finds running = True goes on to return True,
\* stores the negation it computed into paused and sets pause_event to match;
\* no step of either changes running, stop_event, click_count or start_time.
TogglePauseFrame ==
    [][\A c \in Callers :
         LET Unchanged(v) == v' = v IN
         /\ (cpc[c] = "idle" /\ cpc'[c] \in {"P251", "P253"})
              => /\ cpc'[c] = (IF running THEN "P253" ELSE "P251")
                 /\ Unchanged(<<ctl, stats, pc>>)
         /\ (cpc[c] = "P251" /\ cpc'[c] # "P251")
              => (cpc'[c] = "idle" /\ Unchanged(<<ctl, stats, pc>>))
         /\ (cpc[c] = "P253" /\ cpc'[c] # "P253")
              => Unchanged(<<ctl, stats, pc>>)
         /\ (cpc[c] = "P253s" /\ cpc'[c] # "P253s")
              => /\ paused' = negated[c]
                 /\ Unchanged(<<running, stop_event, pause_event, stats, pc>>)
         /\ (cpc[c] = "P254" /\ cpc'[c] # "P254")
              => /\ cpc'[c] = "idle"
                 /\ pause_event' = ~paused
                 /\ Unchanged(<<running, paused, stop_event, stats>>)]_vars

\* A toggle_pause call has just paused a run that has already counted a click.
TogglePauseWitness == cpc["hotkey"] = "P254" /\ paused /\ running /\ click_count > 0

\* C15: a Start whose interval is <= 0 or whose click limit is < 0 never
\* reaches start_clicking: while the call is in progress it is at its error
\* return, and no step of it changes running, paused, the events, the
\* statistics, the stored callback, the loop threads or their click counts.
InvalidStartRejected ==
    [][\A c \in Callers :
         /\ invalid'[c] => cpc'[c] = "G475"
         /\ ((invalid[c] \/ invalid'[c]) /\ cpc'[c] # cpc[c])
              => UNCHANGED <<ctl, stats, auto_stop_callback, click_thread,
                             thr, clicks>>]_vars

\* A Start with an invalid interval or click limit is at its error return on
\* a controller that has never been started.
InvalidStartWitness == invalid["gui"] /\ cpc["gui"] = "G475" /\ Launched = {}

\* C16: the k-th polling thread invokes the callback at most once, and not
\* at all once a stop_capture call has returned before it did.
CaptureFiresOnceUnlessCancelled ==
    [][\A k \in Captures :
         /\ called'[k] <= 1
         /\ cancelled[k] => called'[k] = called[k]]_vars

\* f[1] + ... + f[n]
RECURSIVE Total(_, _)
Total(f, n) == IF n = 0 THEN 0 ELSE f[n] + Total(f, n - 1)

\* C17: over the loops of the controller, the update_callback invocations,
\* the click_count increments and the clicks performed satisfy
\* updates <= increments <= clicks <= updates + 1, and at most one loop is
\* inside pyautogui.click.
ClickIncrementUpdateInOrder ==
    /\ Total(updates, MaxRuns) <= Total(actual_click_count, MaxRuns)
    /\ Total(actual_click_count, MaxRuns) <= Total(clicks, MaxRuns)
    /\ Total(clicks, MaxRuns) <= Total(updates, MaxRuns) + 1
    /\ Cardinality({t \in Runs : pc[t] = "L280"}) <= 1

\* C18: a loop makes a gate query only when, since its previous gate query,
\* a stop_event.wait(interval) of its own has timed out; and a loop whose
\* wait was cut short by the stop signal clicks no more and exits.
IntervalAlwaysPaid ==
    [][\A t \in Runs :
         /\ (pc[t] = "L273" /\ pc'[t] # "L273") => paid[t]
         /\ exit_reason[t] = "wait"
              => /\ pc[t] = "L307"
                 /\ pc'[t] \in {"L307", "done"}
                 /\ clicks'[t] = clicks[t] \/ pc'[t] = "done"]_vars

\* A loop that has clicked, paid its interval and then paused has been woken
\* and is about to make its next gate query.
IntervalPaidWitness ==
    \E t \in Runs : pc[t] = "L268" /\ paid[t] /\ clicks[t] > 0 /\ running

\* C19: click_count never decreases and start_time never changes except in
\* the statistics.start() of an accepted start_clicking, and click_count
\* changes otherwise only in the statistics.increment() of a loop.
ClickCountResetOnlyByStart ==
    [][LET Resetting == \E c \in Callers : cpc[c] = "S229" /\ cpc'[c] = "S230"
           Incrementing == \E t \in Runs : pc[t] = "L281s" /\ pc'[t] = "L285"
       IN  /\ click_count' < click_count => Resetting
           /\ start_time' # start_time => Resetting
           /\ click_count' # click_count => Resetting \/ Incrementing]_vars

\* C20: while the loop of the latest accepted start_clicking is alive,
\* click_count equals that loop's actual_click_count; so where it is about
\* to invoke the auto-stop callback, click_count equals its max_clicks.
CountMatchesLoopCount ==
    \A t \in Alive :
        (click_thread = t /\ Starting = {})
          => /\ click_count = actual_click_count[t]
             /\ pc[t] = "L293" => click_count = max_clicks[t]

\* C21: when no call is in progress, a loop that is blocked in
\* pause_event.wait(), or about to enter it, while paused = False or
\* running = False finds pause_event set (a blocked waiter has then been woken).
NoLostPauseWakeup ==
    \A t \in Runs :
        (CallersIdle /\ pc[t] \in {"L267", "L267w"} /\ (~paused \/ ~running))
          => (pause_event /\ pc[t] # "L267w")

\* C22: the running = False written by a loop thread that is ending (line
\* 291 or line 307) does not change running once a later start_clicking has
\* been accepted.
ExitEndsOnlyOwnRun ==
    [][\A t \in Runs :
         (/\ pc[t] \in {"L291", "L307"}
          /\ pc'[t] # pc[t]
          /\ \E k \in Active : k > t)
           => running' = running]_vars

====
